---------------------------- MODULE Spec2Model ----------------------------
(***************************************************************************)
(* Model of the agent workflow of backend/app/agents/graph.py: the graph   *)
(* built by create_agent_graph (planner -> executor -> tool_executor loop),*)
(* its execution by invoke_agent / ainvoke_agent with the PostgresSaver    *)
(* checkpointer, and get_conversation_history.                             *)
(*                                                                         *)
(* The engine that runs the compiled graph is LangGraph's Pregel loop.     *)
(* graph.py fixes which nodes and edges it runs, which reducer merges      *)
(* `messages`, that a checkpointer is attached and that every invocation   *)
(* passes a non-empty input; the loop itself behaves as follows:           *)
(*   - the input is saved in a checkpoint (source "input") before any step *)
(*   - each super-step (first the __start__ step that applies the input,   *)
(*     then one per node) is followed by a checkpoint (source "loop")      *)
(*   - an invocation with an input discards the tasks left pending by the  *)
(*     latest checkpoint of the thread and starts again from START         *)
(*   - the loop stops with GraphRecursionError when a node is still        *)
(*     pending after recursion_limit steps                                 *)
(*   - get_state_history yields the snapshots of a thread newest first.    *)
(***************************************************************************)
EXTENDS Integers, Sequences, FiniteSets, TLC

(***************************************************************************)
(* Bounds of the model.                                                    *)
(***************************************************************************)
\* invocations of the agent that are started in one behaviour
MaxRuns == 2
\* tool calls the model may put in one executor response
MaxToolCalls == 1
\* node steps of one run before the loop gives up (recursion_limit; the
\* configuration built by invoke_agent does not set it, the engine's default
\* is 25)
RecursionLimit == 4
\* rows of the AgentRun table
MaxRunRecords == 2
\* rows of the AgentEvaluation table
MaxEvaluations == 2
\* node steps a caller would give a run before its deadline expires;
\* run_agent, ainvoke_agent and the route take no deadline
Deadline == 2
\* executions wrapped in track_agent_execution
MaxTracked == 3
\* trace() and span() contexts open inside one another
MaxDepth == 3
\* traces and spans the Langfuse client creates
MaxObjects == 3
\* `times` of create_rate_limiter: requests of one identifier in a window
RateTimes == 2
\* traces _fetch_traces returns
MaxTraces == 2
\* range(3) of _evaluate_metric
Attempts == 3
\* `attempt < 2`: the attempts after which _evaluate_metric tries again
Retried == 2

Threads == {"t1", "t2"}
Users == {"u1", "u2"}
\* who runs the agent where the history is queried
HistoryUsers == {"u1"}
\* the thread of the runs where the tool calls are followed
ToolThreads == {"t1"}

\* `None` of plan (ids of messages start at 1)
None == 0
\* `None` of user_id and of an absent thread_id
NoUser == "None"
\* session=None of invoke_agent and get_all_tools
NoSession == "None"
Sessions == {NoSession, "db"}
\* langfuse_handler = None
NoHandler == "None"
\* run_agent has not ended
NoResult ==
    [kind |-> "none", status |-> "none", thread_id |-> NoUser,
     exc |-> "none", flushes |-> 0]
\* the callers of the routes: two users and a superuser
Callers == {"u1", "u2", "admin"}
\* no request has been answered
NoReply == [op |-> "none", caller |-> NoUser, run_id |-> 0, code |-> 0,
               data |-> <<>>]
\* skip and limit of GET /agent/runs
Skips == {0, 1}
PageLimits == {1, 2, 1001}
\* limit=None of get_conversation_history
NoLimit == -1
Limits == {NoLimit, 0, 1, 2}

\* agent_type labels of the active-executions gauge
AgentTypes == {"default", "langgraph"}
\* agent_active_executions = None: the metrics are not initialized
NoGauge == [ready |-> FALSE, value |-> [t \in AgentTypes |-> 0]]
\* an execution that has not entered track_agent_execution
NotTracked == [phase |-> "new", agent_type |-> "default", incs |-> 0,
               decs |-> 0]
\* token = None of trace() and span(): the context variable was not set
NoToken == [set |-> FALSE, old |-> None]
\* no trace() or span() has ended
NoExit == [kind |-> "none", obj |-> None, how |-> "none", raised |-> FALSE]
\* FastAPILimiter.redis = None
NoRedis == "None"
\* what default_identifier tells requests apart by
RateIds == {"u1", "u2"}
\* no request has passed the rate-limit dependency
NoLimitReply == [limiter |-> "none", redis |-> NoRedis, consulted |-> FALSE,
                 warned |-> FALSE, outcome |-> "none"]
\* names of the metrics, in the order of the list
MetricNames == <<"relevancy", "helpfulness">>
\* how one call of the evaluation model can end: a parsed score, no parsed
\* score, an exception
CallOutcomes == {"score", "empty", "error"}
\* _initialize_report
InitialReport ==
    [total_traces |-> 0, successful_traces |-> 0, failed_traces |-> 0,
     metrics_summary |->
        [j \in 1..Len(MetricNames) |->
            [success_count |-> 0, failure_count |-> 0]]]
\* trace_results[trace_id] at the start of a trace, with the calls made
\* for each metric
InitialTraceResult ==
    [success |-> FALSE, metrics_evaluated |-> 0, metrics_succeeded |-> 0,
     metrics_results |-> [j \in 1..Len(MetricNames) |-> "none"],
     calls |-> [j \in 1..Len(MetricNames) |-> 0]]

END == "__end__"
START == "__start__"
Nodes == {"planner", "executor", "tool_executor"}

VARIABLES
    store,        \* thread_id -> checkpoints of the thread, in creation order
    clock,        \* source of created_at
    nextId,       \* source of fresh message ids and tool-call ids
    runs,         \* invocations started so far
    pc,           \* "idle", START, a node, "done" or "failed"
    config,       \* configurable of the run in flight: thread_id, user_id
    state,        \* AgentState of the run in flight (the result once done)
    visited,      \* nodes the run has executed, in order
    failure,      \* why the run failed
    baseLen,      \* checkpoints the thread had when the run was invoked
    resumedFrom,  \* `next` of the thread's latest checkpoint at invocation
    lastOp,       \* the operation that produced this state
    histArgs,     \* arguments of the last get_conversation_history
    histResult,   \* what it returned
    histRepeat,   \* the last two operations were the same history query
    pcB,          \* position of a second run, in flight on the same thread
    stateB,       \* AgentState of the second run
    stepsB,       \* nodes the second run has executed
    session,      \* the database session the run was invoked with
    tools,        \* names of the tools the graph's ToolNode was built with
    bound,        \* names of the tools the executor bound to the model
    toolResults,  \* what the tools called by the last step returned
    toolFailed,   \* a tool call of the run has failed
    conn,         \* the checkpointer connection of the call: "closed", "open"
    connLog,      \* what the last call did with its checkpointer, in order
    request,      \* arguments of the run_agent call in flight
    handler,      \* its langfuse_handler
    result,       \* how the call ended: what it returned or raised
    agentRuns,    \* rows of the AgentRun table, in creation order
    evaluations,  \* rows of the AgentEvaluation table, in creation order
    reply,        \* what the last request to the agent routes was answered
    agent_active_executions,  \* the gauge: its value for each agent_type
    tracked,      \* the executions under track_agent_execution
    current_trace,  \* _current_trace: id of the active trace, or None
    current_span,   \* _current_span: id of the active span, or None
    ctxStack,     \* the trace() and span() contexts that are open, outermost
                  \* first
    objects,      \* the traces and spans created so far: object id -> kind
                  \* and calls of end()
    traceFlushes, \* calls of client.flush() by trace()
    traceExit,    \* how the last trace() or span() ended
    limiter,      \* the dependency create_rate_limiter returned: "no_op" or
                  \* "resilient" ("none" before it is called)
    redis,        \* FastAPILimiter.redis
    redisWarned,  \* _REDIS_UNAVAILABLE_WARNED
    hits,         \* identifier -> requests the limiter counted in the window
    bypassLogged, \* 'bypassed' warnings logged since Redis was last available
    limitReply,   \* what the dependency did with the last request
    evPc,         \* position of Evaluator.run: phase, trace and metric
    evTraces,     \* the traces _fetch_traces returned: whether each has an
                  \* input and an output
    report,       \* self.report
    trace_results \* trace_results of run, by position of the trace

\* the second run
concVars == <<pcB, stateB, stepsB>>

\* the tools of the run
toolVars == <<session, tools, bound, toolResults, toolFailed>>

\* the checkpointer connection
connVars == <<conn, connLog>>

\* AgentService.run_agent
svcVars == <<request, handler, result>>

\* the run records and what the routes answer
accessVars == <<agentRuns, evaluations, reply>>

\* the active-executions gauge
gaugeVars == <<agent_active_executions, tracked>>

\* the Langfuse trace and span of the context
traceVars == <<current_trace, current_span, ctxStack, objects, traceFlushes,
               traceExit>>

\* the rate-limit dependency
limitVars == <<limiter, redis, redisWarned, hits, bypassLogged, limitReply>>

\* the Evaluator
evalVars == <<evPc, evTraces, report, trace_results>>

\* what lies outside the agent workflow
auxVars == <<accessVars, gaugeVars, traceVars, limitVars, evalVars>>

\* what a second run leaves alone
restVars == <<toolVars, connVars, svcVars, auxVars>>

\* what the runs of one caller at a time leave alone
extVars == <<concVars, restVars>>

vars == <<store, clock, nextId, runs, pc, config, state, visited, failure,
          baseLen, resumedFrom, lastOp, histArgs, histResult, histRepeat,
          pcB, stateB, stepsB, session, tools, bound, toolResults,
          toolFailed, conn, connLog, request, handler, result,
          agentRuns, evaluations, reply, agent_active_executions, tracked,
          current_trace, current_span, ctxStack, objects, traceFlushes,
          traceExit, limiter, redis, redisWarned, hits, bypassLogged,
          limitReply, evPc, evTraces, report, trace_results>>

\* the agent workflow and its callers
agentVars == <<store, clock, nextId, runs, pc, config, state, visited, failure,
               baseLen, resumedFrom, lastOp, histArgs, histResult, histRepeat,
               concVars, toolVars, connVars, svcVars>>

\* what the routes of the run records leave alone
accessFrame == <<agentVars, gaugeVars, traceVars, limitVars, evalVars>>

\* what track_agent_execution leaves alone
gaugeFrame == <<agentVars, accessVars, traceVars, limitVars, evalVars>>

\* what trace() and span() leave alone
traceFrame == <<agentVars, accessVars, gaugeVars, limitVars, evalVars>>

\* what the rate-limit dependency leaves alone
limitFrame == <<agentVars, accessVars, gaugeVars, traceVars, evalVars>>

\* what the Evaluator leaves alone
evalFrame == <<agentVars, accessVars, gaugeVars, traceVars, limitVars>>

(***************************************************************************)
(* Sequences.                                                              *)
(***************************************************************************)
Last(s) == s[Len(s)]

IsPrefix(s, t) == Len(s) <= Len(t) /\ \A i \in 1..Len(s) : s[i] = t[i]

Reverse(s) == [i \in 1..Len(s) |-> s[Len(s) + 1 - i]]

(***************************************************************************)
(* Messages.  The content of a message is not modelled; a message is       *)
(* identified by its id.  tool_calls is the sequence of call ids of an     *)
(* assistant message, tool_call_id the call a tool message answers.        *)
(***************************************************************************)
HumanMessage(id) ==
    [id |-> id, type |-> "human", tool_calls |-> <<>>, tool_call_id |-> 0]

AIMessage(id, calls) ==
    [id |-> id, type |-> "ai", tool_calls |-> calls, tool_call_id |-> 0]

ToolMessage(id, call) ==
    [id |-> id, type |-> "tool", tool_calls |-> <<>>, tool_call_id |-> call]

\* a reducer that overwrites the list, as a field without reducer would
AddOneOverwrite(left, m) == <<m>>

\* the reducer of AgentState.messages: a message whose id is already in the
\* list replaces that message, any other message is appended
AddOne(left, m) ==
    IF \E i \in 1..Len(left) : left[i].id = m.id
    THEN [i \in 1..Len(left) |-> IF left[i].id = m.id THEN m ELSE left[i]]
    ELSE Append(left, m)

RECURSIVE add_messages(_, _)
add_messages(left, right) ==
    IF right = <<>> THEN left
    ELSE add_messages(AddOne(left, Head(right)), Tail(right))

\* AgentState before anything was written to it
EmptyState == [messages |-> <<>>, plan |-> None, user_id |-> NoUser]

\* an input whose user_id is not written to the state
ApplyInputKeepUser(st, msgId, user) ==
    [messages |-> add_messages(st.messages, <<HumanMessage(msgId)>>),
     plan |-> None,
     user_id |-> st.user_id]

\* an input that leaves the plan of the thread in place
ApplyInputKeepPlan(st, msgId, user) ==
    [messages |-> add_messages(st.messages, <<HumanMessage(msgId)>>),
     plan |-> st.plan,
     user_id |-> user]

\* initial_state of invoke_agent, merged into the state by the START step:
\* messages through its reducer, plan and user_id overwritten
ApplyInput(st, msgId, user) ==
    [messages |-> add_messages(st.messages, <<HumanMessage(msgId)>>),
     plan |-> None,
     user_id |-> user]

(***************************************************************************)
(* Nodes and routers.                                                      *)
(***************************************************************************)
\* a planner that returns the plan alone
planner_plan_only(st, id) == [st EXCEPT !.plan = id]

\* a planner whose response replaces the conversation
planner_replaces_messages(st, id) ==
    [st EXCEPT !.plan = id, !.messages = <<AIMessage(id, <<>>)>>]

\* planner_node: the model is invoked without tools; the response becomes
\* the plan and is also returned in "messages"
planner_node(st, id) ==
    LET response == AIMessage(id, <<>>)
    IN [st EXCEPT !.plan = response.id,
                  !.messages = add_messages(@, <<response>>)]

\* executor_node: the response of the model with the tools bound, carrying
\* n tool calls with fresh call ids
ExecutorResponse(id, n) == AIMessage(id, [i \in 1..n |-> id + i])

executor_node(st, id, n) ==
    [st EXCEPT !.messages = add_messages(@, <<ExecutorResponse(id, n)>>)]

\* a tool node that loses the result of the last call
ToolResultsDropLast(calls, id) ==
    [i \in 1..(Len(calls) - 1) |-> ToolMessage(id + i - 1, calls[i])]

\* ToolNode(tools): one ToolMessage per tool call of the last message, in
\* the order of the calls, each carrying the id of the call it answers
ToolResults(calls, id) ==
    [i \in 1..Len(calls) |-> ToolMessage(id + i - 1, calls[i])]

tool_executor(st, id) ==
    [st EXCEPT !.messages =
        add_messages(@, ToolResults(Last(st.messages).tool_calls, id))]

\* a router after the planner that ends the run
should_continue_end(st) == "end"

should_continue(st) == "executor"

\* a router that sends every executor response to the tools
route_always_tools(st) == "tool_executor"

route_after_executor(st) ==
    IF Last(st.messages).tool_calls # <<>> THEN "tool_executor" ELSE "end"

\* the edges with tool_executor wired to END instead of back to executor
NextNodeToolsEnd(node, st) ==
    CASE node = START -> "planner"
      [] node = "planner" -> "executor"
      [] node = "executor" ->
            IF Last(st.messages).tool_calls # <<>> THEN "tool_executor" ELSE END
      [] node = "tool_executor" -> END

\* the edges added by create_agent_graph (get_all_tools always returns the
\* HTTP tools, so the tool_executor branch is the one that is built)
NextNode(node, st) ==
    CASE node = START -> "planner"
      [] node = "planner" ->
            IF should_continue(st) = "executor" THEN "executor" ELSE END
      [] node = "executor" ->
            IF route_after_executor(st) = "tool_executor"
            THEN "tool_executor" ELSE END
      [] node = "tool_executor" -> "executor"

(***************************************************************************)
(* Checkpoints.                                                            *)
(***************************************************************************)
LastStep(t) == IF store[t] = <<>> THEN -2 ELSE Last(store[t]).step

Checkpoint(t, source, values, next) ==
    [step |-> LastStep(t) + 1, source |-> source, values |-> values,
     next |-> next, created_at |-> clock]

\* the checkpointer's put
Put(t, source, values, next) ==
    /\ store' = [store EXCEPT ![t] = Append(@, Checkpoint(t, source, values, next))]
    /\ clock' = clock + 1

NoHistory == [thread_id |-> NoUser, limit |-> NoLimit]

\* the result of a history query is the return value of that call: the
\* next operation of the program no longer has it
ForgetHistory ==
    /\ histArgs' = NoHistory
    /\ histResult' = <<>>
    /\ histRepeat' = FALSE

Init ==
    /\ store = [t \in Threads |-> <<>>]
    /\ clock = 1
    /\ nextId = 1
    /\ runs = 0
    /\ pc = "idle"
    /\ config = [thread_id |-> NoUser, user_id |-> NoUser]
    /\ state = EmptyState
    /\ visited = <<>>
    /\ failure = "none"
    /\ baseLen = 0
    /\ resumedFrom = "none"
    /\ lastOp = "init"
    /\ histArgs = NoHistory
    /\ histResult = <<>>
    /\ histRepeat = FALSE
    /\ pcB = "idle"
    /\ stateB = EmptyState
    /\ stepsB = 0
    /\ session = NoSession
    /\ tools = <<>>
    /\ bound = <<>>
    /\ toolResults = <<>>
    /\ toolFailed = FALSE
    /\ conn = "closed"
    /\ connLog = <<>>
    /\ request = [thread_id |-> NoUser, user_id |-> NoUser]
    /\ handler = NoHandler
    /\ result = NoResult
    /\ agentRuns = <<>>
    /\ evaluations = <<>>
    /\ reply = NoReply
    /\ agent_active_executions = NoGauge
    /\ tracked = [i \in 1..MaxTracked |-> NotTracked]
    /\ current_trace = None
    /\ current_span = None
    /\ ctxStack = <<>>
    /\ objects = <<>>
    /\ traceFlushes = 0
    /\ traceExit = NoExit
    /\ limiter = "none"
    /\ redis = NoRedis
    /\ redisWarned = FALSE
    /\ hits = [id \in RateIds |-> 0]
    /\ bypassLogged = 0
    /\ limitReply = NoLimitReply
    /\ evPc = [phase |-> "new", i |-> 1, j |-> 1]
    /\ evTraces = <<>>
    /\ report = InitialReport
    /\ trace_results = <<>>


(***************************************************************************)
(* invoke_agent / ainvoke_agent.                                           *)
(***************************************************************************)
\* thread_id of the run: the caller's, or a uuid4 (a thread that has no
\* checkpoint yet) when the caller gives none
ThreadIds(tid) ==
    IF tid = NoUser THEN {t \in Threads : store[t] = <<>>} ELSE {tid}

\* a run that ignores what the thread has stored
LoadedNothing(t) == EmptyState

\* the state the engine loads for the thread: the values of its latest
\* checkpoint
Loaded(t) == IF store[t] = <<>> THEN EmptyState ELSE Last(store[t]).values

\* invoke_agent up to the first step of the graph: the checkpointer is
\* opened and set up, the graph is compiled with it, and graph.invoke loads
\* the thread and saves the input checkpoint
Invoke(tid, user) ==
    /\ pc \in {"idle", "done", "failed"}
    /\ runs < MaxRuns
    /\ \E t \in ThreadIds(tid) :
        /\ config' = [thread_id |-> t, user_id |-> user]
        /\ state' = Loaded(t)
        /\ baseLen' = Len(store[t])
        /\ resumedFrom' = IF store[t] = <<>> THEN "none" ELSE Last(store[t]).next
        /\ Put(t, "input", Loaded(t), START)
    /\ runs' = runs + 1
    /\ pc' = START
    /\ visited' = <<>>
    /\ failure' = "none"
    /\ lastOp' = "invoke"
    /\ ForgetHistory
    /\ UNCHANGED nextId

\* an engine that saves no checkpoint after the planner
AdvanceSkipPlanner(node, st) ==
    LET next == NextNode(node, st)
    IN /\ state' = st
       /\ IF node = "planner"
          THEN UNCHANGED <<store, clock>>
          ELSE Put(config.thread_id, "loop", st, IF next = END THEN "none" ELSE next)
       /\ pc' = IF next = END THEN "done" ELSE next
       /\ lastOp' = node
       /\ ForgetHistory
       /\ UNCHANGED <<runs, config, failure, baseLen, resumedFrom>>

\* what the engine does once a step has produced the state st: it saves the
\* checkpoint of the step and moves to the node the edges select
Advance(node, st) ==
    LET next == NextNode(node, st)
    IN /\ state' = st
       /\ Put(config.thread_id, "loop", st, IF next = END THEN "none" ELSE next)
       /\ pc' = IF next = END THEN "done" ELSE next
       /\ lastOp' = node
       /\ ForgetHistory
       /\ UNCHANGED <<runs, config, failure, baseLen, resumedFrom>>

\* the START step: initial_state is written to the state
StartStep ==
    /\ pc = START
    /\ Advance(START, ApplyInput(state, nextId, config.user_id))
    /\ nextId' = nextId + 1
    /\ UNCHANGED visited

PlannerStep ==
    /\ pc = "planner"
    /\ Len(visited) < RecursionLimit
    /\ Advance("planner", planner_node(state, nextId))
    /\ nextId' = nextId + 1
    /\ visited' = Append(visited, "planner")

ExecutorStep ==
    /\ pc = "executor"
    /\ Len(visited) < RecursionLimit
    /\ \E n \in 0..MaxToolCalls :
        /\ Advance("executor", executor_node(state, nextId, n))
        /\ nextId' = nextId + 1 + n
    /\ visited' = Append(visited, "executor")

ToolExecutorStep ==
    /\ pc = "tool_executor"
    /\ Len(visited) < RecursionLimit
    /\ Advance("tool_executor", tool_executor(state, nextId))
    /\ nextId' = nextId + Len(Last(state.messages).tool_calls)
    /\ visited' = Append(visited, "tool_executor")

\* a step the engine does not complete leaves no checkpoint
Abort(kind) ==
    /\ pc' = "failed"
    /\ failure' = kind
    /\ lastOp' = kind
    /\ ForgetHistory
    /\ UNCHANGED <<store, clock, nextId, runs, config, state, visited,
                   baseLen, resumedFrom>>

\* model.invoke raises in planner_node or executor_node: nothing catches
\* it, graph.invoke raises
ModelFails ==
    /\ pc \in {"planner", "executor"}
    /\ Len(visited) < RecursionLimit
    /\ Abort("model_error")

\* a node is pending after recursion_limit steps: GraphRecursionError
OutOfSteps ==
    /\ pc \in Nodes
    /\ Len(visited) >= RecursionLimit
    /\ Abort("recursion")

\* the process stops between two steps of the run; the checkpoints stay
Crash ==
    /\ pc \in {START} \cup Nodes
    /\ pc' = "idle"
    /\ state' = EmptyState
    /\ lastOp' = "crash"
    /\ ForgetHistory
    /\ UNCHANGED <<store, clock, nextId, runs, config, visited, failure,
                   baseLen, resumedFrom>>

(***************************************************************************)
(* get_conversation_history.                                               *)
(***************************************************************************)
\* graph.get_state_history(config): the snapshots of the thread, newest
\* first
get_state_history(t) == Reverse(store[t])

Snapshot(c) ==
    [values |-> c.values, created_at |-> c.created_at,
     metadata |-> [source |-> c.source, step |-> c.step]]

\* `if limit`: None and 0 are false
Truthy(limit) == limit # NoLimit /\ limit # 0

\* the for loop: append, then break once `limit and len(history) >= limit`
RECURSIVE HistoryLoop(_, _, _)
HistoryLoop(iter, history, limit) ==
    IF iter = <<>> THEN history
    ELSE LET h == Append(history, Snapshot(Head(iter)))
         IN IF Truthy(limit) /\ Len(h) >= limit THEN h
            ELSE HistoryLoop(Tail(iter), h, limit)

get_conversation_history(t, limit) == HistoryLoop(get_state_history(t), <<>>, limit)

\* a query that consumes the newest checkpoint it has read
HistoryStorePop(t) ==
    [store EXCEPT ![t] = IF @ = <<>> THEN @ ELSE SubSeq(@, 1, Len(@) - 1)]

\* what the call does to the checkpoints: setup() creates the tables when
\* they are missing, and the iteration only reads
HistoryStore(t) == store

GetHistory(t, limit) ==
    /\ pc \in {"idle", "done", "failed"}
    /\ histArgs' = [thread_id |-> t, limit |-> limit]
    /\ histResult' = get_conversation_history(t, limit)
    /\ histRepeat' = (lastOp = "history" /\ histArgs = [thread_id |-> t, limit |-> limit])
    /\ store' = HistoryStore(t)
    /\ lastOp' = "history"
    /\ UNCHANGED <<clock, nextId, runs, pc, config, state, visited, failure,
                   baseLen, resumedFrom>>

\* one step of the run in flight
Step ==
    \/ StartStep
    \/ PlannerStep
    \/ ExecutorStep
    \/ ToolExecutorStep
    \/ ModelFails
    \/ OutOfSteps

\* runs of the agent, which the process may stop at any point
Next ==
    \/ \E tid \in Threads \cup {NoUser}, user \in Users :
          Invoke(tid, user) /\ UNCHANGED extVars
    \/ StartStep /\ UNCHANGED extVars
    \/ PlannerStep /\ UNCHANGED extVars
    \/ ExecutorStep /\ UNCHANGED extVars
    \/ ToolExecutorStep /\ UNCHANGED extVars
    \/ ModelFails /\ UNCHANGED extVars
    \/ OutOfSteps /\ UNCHANGED extVars
    \/ Crash /\ UNCHANGED extVars

Spec == Init /\ [][Next]_vars

\* the same runs, for what is claimed of the order of the nodes and of the
\* runs of one thread
SpecThread == Init /\ [][Next]_vars

\* runs of the agent and queries of the history between them
NextHistory ==
    \/ \E tid \in Threads, user \in HistoryUsers :
          Invoke(tid, user) /\ UNCHANGED extVars
    \/ StartStep /\ UNCHANGED extVars
    \/ PlannerStep /\ UNCHANGED extVars
    \/ ExecutorStep /\ UNCHANGED extVars
    \/ ToolExecutorStep /\ UNCHANGED extVars
    \/ ModelFails /\ UNCHANGED extVars
    \/ OutOfSteps /\ UNCHANGED extVars
    \/ \E t \in Threads, limit \in Limits :
          GetHistory(t, limit) /\ UNCHANGED extVars

SpecHistory == Init /\ [][NextHistory]_vars


(***************************************************************************)
(* Two runs in flight on one thread.  ainvoke_agent takes no lock and the  *)
(* route that calls it keeps none per thread: a second request for the     *)
(* thread_id of a run in flight opens a checkpointer of its own, loads the *)
(* latest checkpoint of the thread and runs the graph on that state, and   *)
(* the steps of the two runs interleave at every await.  Each run saves    *)
(* the state it holds itself.                                              *)
(***************************************************************************)
\* the second request arrives while the first run is in flight
InvokeB ==
    /\ pc \in {START} \cup Nodes
    /\ pcB = "idle"
    /\ runs < MaxRuns
    /\ stateB' = Loaded(config.thread_id)
    /\ Put(config.thread_id, "input", Loaded(config.thread_id), START)
    /\ runs' = runs + 1
    /\ pcB' = START
    /\ stepsB' = 0
    /\ lastOp' = "invoke"
    /\ ForgetHistory
    /\ UNCHANGED <<nextId, pc, config, state, visited, failure, baseLen,
                   resumedFrom>>

\* the engine of the second run after a step that produced the state st
AdvanceB(node, st) ==
    LET next == NextNode(node, st)
    IN /\ stateB' = st
       /\ Put(config.thread_id, "loop", st, IF next = END THEN "none" ELSE next)
       /\ pcB' = IF next = END THEN "done" ELSE next
       /\ lastOp' = node
       /\ ForgetHistory
       /\ UNCHANGED <<runs, pc, config, state, visited, failure, baseLen,
                      resumedFrom>>

StartStepB ==
    /\ pcB = START
    /\ AdvanceB(START, ApplyInput(stateB, nextId, config.user_id))
    /\ nextId' = nextId + 1
    /\ UNCHANGED stepsB

PlannerStepB ==
    /\ pcB = "planner"
    /\ stepsB < RecursionLimit
    /\ AdvanceB("planner", planner_node(stateB, nextId))
    /\ nextId' = nextId + 1
    /\ stepsB' = stepsB + 1

ExecutorStepB ==
    /\ pcB = "executor"
    /\ stepsB < RecursionLimit
    /\ \E n \in 0..MaxToolCalls :
        /\ AdvanceB("executor", executor_node(stateB, nextId, n))
        /\ nextId' = nextId + 1 + n
    /\ stepsB' = stepsB + 1

ToolExecutorStepB ==
    /\ pcB = "tool_executor"
    /\ stepsB < RecursionLimit
    /\ AdvanceB("tool_executor", tool_executor(stateB, nextId))
    /\ nextId' = nextId + Len(Last(stateB.messages).tool_calls)
    /\ stepsB' = stepsB + 1

OutOfStepsB ==
    /\ pcB \in Nodes
    /\ stepsB >= RecursionLimit
    /\ pcB' = "failed"
    /\ lastOp' = "recursion"
    /\ ForgetHistory
    /\ UNCHANGED <<store, clock, nextId, runs, pc, config, state, visited,
                   failure, baseLen, resumedFrom, stateB, stepsB>>

\* the first run returns while the second is in flight or has ended, and
\* the caller may start the next pair
NextConcurrent ==
    \/ \E tid \in Threads, user \in HistoryUsers :
          /\ pcB \in {"idle", "done", "failed"}
          /\ Invoke(tid, user)
          /\ pcB' = "idle"
          /\ stateB' = EmptyState
          /\ stepsB' = 0
          /\ UNCHANGED restVars
    \/ StartStep /\ UNCHANGED extVars
    \/ PlannerStep /\ UNCHANGED extVars
    \/ ExecutorStep /\ UNCHANGED extVars
    \/ ToolExecutorStep /\ UNCHANGED extVars
    \/ ModelFails /\ UNCHANGED extVars
    \/ OutOfSteps /\ UNCHANGED extVars
    \/ InvokeB /\ UNCHANGED restVars
    \/ StartStepB /\ UNCHANGED restVars
    \/ PlannerStepB /\ UNCHANGED restVars
    \/ ExecutorStepB /\ UNCHANGED restVars
    \/ ToolExecutorStepB /\ UNCHANGED restVars
    \/ OutOfStepsB /\ UNCHANGED restVars

SpecConcurrent == Init /\ [][NextConcurrent]_vars


(***************************************************************************)
(* The tools (tools.py).  A tool is modelled by what its body does with    *)
(* the outcome of the call it makes (the query of the session, the HTTP    *)
(* request): it returns a JSON payload, which has an "error" key or not,   *)
(* or it raises.  error = "" stands for a payload without that key.        *)
(***************************************************************************)
Data == [raised |-> FALSE, error |-> ""]
Error(text) == [raised |-> FALSE, error |-> text]
Raises == [raised |-> TRUE, error |-> ""]

DatabaseToolNames == <<"lookup_user_by_email", "lookup_item_by_id", "lookup_user_items">>
HttpToolNames == <<"http_get", "http_post">>

\* what the call made by the tool's body can do
Outcomes(tool) ==
    CASE tool \in {"lookup_user_by_email", "lookup_item_by_id"} ->
            {"row", "no_row", "exception"}
      [] tool = "lookup_user_items" -> {"rows", "exception"}
      [] tool \in {"http_get", "http_post"} ->
            {"response", "status_error", "request_error", "exception"}

\* the outcomes that are a failure of the tool
Failed(outcome) == outcome \notin {"row", "rows", "response"}

lookup_user_by_email(outcome) ==
    CASE outcome = "row" -> Data
      [] outcome = "no_row" -> Error("No user found")
      [] outcome = "exception" -> Error("Database error")

lookup_item_by_id(outcome) ==
    CASE outcome = "row" -> Data
      [] outcome = "no_row" -> Error("No item found")
      [] outcome = "exception" -> Error("Database error")

lookup_user_items(outcome) ==
    CASE outcome = "rows" -> Data
      [] outcome = "exception" -> Error("Database error")

\* an http_get without its `except httpx.RequestError`
http_get_uncaught(outcome) ==
    CASE outcome = "response" -> Data
      [] outcome = "status_error" -> Error("HTTP error")
      [] outcome = "request_error" -> Raises
      [] outcome = "exception" -> Error("Unexpected error")

http_get(outcome) ==
    CASE outcome = "response" -> Data
      [] outcome = "status_error" -> Error("HTTP error")
      [] outcome = "request_error" -> Error("Request error")
      [] outcome = "exception" -> Error("Unexpected error")

http_post(outcome) ==
    CASE outcome = "response" -> Data
      [] outcome = "status_error" -> Error("HTTP error")
      [] outcome = "request_error" -> Error("Request error")
      [] outcome = "exception" -> Error("Unexpected error")

create_database_tools(sess) == DatabaseToolNames

\* a registry that adds the HTTP tools only when there is no session
get_all_tools_either(sess) ==
    IF sess # NoSession THEN create_database_tools(sess) ELSE HttpToolNames

\* a registry with nothing but the database tools
get_all_tools_session_only(sess) ==
    IF sess # NoSession THEN create_database_tools(sess) ELSE <<>>

\* get_all_tools: the database tools when a session is given, then the
\* HTTP tools
get_all_tools(sess) ==
    (IF sess # NoSession THEN create_database_tools(sess) ELSE <<>>)
        \o HttpToolNames

\* create_agent_graph: the builder after the add_node, add_edge and
\* add_conditional_edges calls, with the tools given to the ToolNode
create_agent_graph(sess) ==
    LET ts == get_all_tools(sess)
    IN [nodes |-> {"planner", "executor"}
                    \cup (IF ts # <<>> THEN {"tool_executor"} ELSE {}),
        edges |-> {<<START, "planner">>}
                    \cup (IF ts # <<>> THEN {<<"tool_executor", "executor">>}
                                       ELSE {<<"executor", END>>}),
        branches |->
            {[source |-> "planner", router |-> "should_continue",
              path_map |-> {<<"executor", "executor">>, <<"end", END>>}]}
            \cup (IF ts # <<>>
                  THEN {[source |-> "executor", router |-> "route_after_executor",
                         path_map |-> {<<"tool_executor", "tool_executor">>,
                                       <<"end", END>>}]}
                  ELSE {}),
        tools |-> ts]

\* what a router can return
RouterOutcomes(router) ==
    CASE router = "should_continue" -> {"executor"}
      [] router = "route_after_executor" -> {"tool_executor", "end"}

\* tool.invoke for the tool of that name
RunTool(tool, outcome) ==
    CASE tool = "lookup_user_by_email" -> lookup_user_by_email(outcome)
      [] tool = "lookup_item_by_id" -> lookup_item_by_id(outcome)
      [] tool = "lookup_user_items" -> lookup_user_items(outcome)
      [] tool = "http_get" -> http_get(outcome)
      [] tool = "http_post" -> http_post(outcome)

Range(seq) == {seq[i] : i \in 1..Len(seq)}

\* a tool call of the model: one of the tools of the graph, and what
\* happens to the call the tool makes
ToolCalls(ts) ==
    {c \in [tool : Range(ts), outcome : {"row", "no_row", "rows", "exception",
                "response", "status_error", "request_error"}] :
        c.outcome \in Outcomes(c.tool)}

\* invoke_agent with or without a session: create_agent_graph builds the
\* ToolNode with get_all_tools(session)
InvokeWithSession(tid, user, sess) ==
    /\ Invoke(tid, user)
    /\ session' = sess
    /\ tools' = get_all_tools(sess)
    /\ bound' = <<>>
    /\ toolResults' = <<>>
    /\ toolFailed' = FALSE

\* executor_node binds get_all_tools(session) to the model
ExecutorBinds ==
    /\ ExecutorStep
    /\ bound' = get_all_tools(session)
    /\ toolResults' = <<>>
    /\ UNCHANGED <<session, tools, toolFailed>>

\* the ToolNode runs the tool of every call of the last message; a tool
\* that raised would end the step without a result
ToolsRun ==
    /\ pc = "tool_executor"
    /\ Len(visited) < RecursionLimit
    /\ LET calls == Last(state.messages).tool_calls
       IN \E cs \in [1..Len(calls) -> ToolCalls(tools)] :
            LET results == [i \in 1..Len(calls) |->
                    [call |-> calls[i], tool |-> cs[i].tool,
                     outcome |-> cs[i].outcome,
                     payload |-> RunTool(cs[i].tool, cs[i].outcome)]]
            IN /\ toolResults' = results
               /\ toolFailed' =
                     (toolFailed \/ \E i \in 1..Len(calls) : Failed(cs[i].outcome))
               /\ IF \E i \in 1..Len(calls) : results[i].payload.raised
                  THEN Abort("tool_error")
                  ELSE ToolExecutorStep
    /\ UNCHANGED <<session, tools, bound>>

\* runs whose tool calls succeed or fail
NextTools ==
    \/ \E tid \in ToolThreads, user \in HistoryUsers, sess \in Sessions :
          InvokeWithSession(tid, user, sess)
              /\ UNCHANGED <<auxVars, concVars, connVars, svcVars>>
    \/ StartStep /\ toolResults' = <<>>
                 /\ UNCHANGED <<auxVars, concVars, connVars, svcVars, session,
                                tools, bound, toolFailed>>
    \/ PlannerStep /\ toolResults' = <<>>
                   /\ UNCHANGED <<auxVars, concVars, connVars, svcVars, session,
                                tools, bound, toolFailed>>
    \/ ExecutorBinds /\ UNCHANGED <<auxVars, concVars, connVars, svcVars>>
    \/ ToolsRun /\ UNCHANGED <<auxVars, concVars, connVars, svcVars>>
    \/ ModelFails /\ toolResults' = <<>>
                   /\ UNCHANGED <<auxVars, concVars, connVars, svcVars, session,
                                tools, bound, toolFailed>>
    \/ OutOfSteps /\ toolResults' = <<>>
                   /\ UNCHANGED <<auxVars, concVars, connVars, svcVars, session,
                                tools, bound, toolFailed>>

SpecTools == Init /\ [][NextTools]_vars


(***************************************************************************)
(* The checkpointer connection.  invoke_agent, ainvoke_agent and           *)
(* get_conversation_history run everything inside                          *)
(* `with PostgresSaver.from_conn_string(...) as checkpointer:`             *)
(***************************************************************************)
\* a with block that releases the connection only when its body returns
LeavesByReturn(p) == p = "done"

\* the with block is left: graph.invoke has returned or has raised
Leaves(p) == p \in {"done", "failed"}

\* __enter__, checkpointer.setup(), create_agent_graph, graph.invoke
InvokeOpens(tid, user) ==
    /\ conn = "closed"
    /\ Invoke(tid, user)
    /\ conn' = "open"
    /\ connLog' = <<"enter", "setup", "create_graph", "invoke">>

\* __exit__ runs when the step ends the call
ExitIfLeaves ==
    IF Leaves(pc')
    THEN conn' = "closed" /\ connLog' = Append(connLog, "exit")
    ELSE UNCHANGED connVars

\* checkpointer.setup() raises: the with block is left before the graph
\* exists
SetupFails ==
    /\ pc \in {"idle", "done", "failed"}
    /\ conn = "closed"
    /\ failure # "setup_error"
    /\ Abort("setup_error")
    /\ conn' = "closed"
    /\ connLog' = <<"enter", "setup", "exit">>

\* get_conversation_history is one call: it opens, sets up, builds the
\* graph, iterates get_state_history and leaves the with block
HistoryOpens(t, limit) ==
    /\ conn = "closed"
    /\ GetHistory(t, limit)
    /\ conn' = "closed"
    /\ connLog' = <<"enter", "setup", "create_graph", "get_state_history", "exit">>

NextConn ==
    \/ \E tid \in Threads, user \in HistoryUsers :
          InvokeOpens(tid, user) /\ UNCHANGED <<auxVars, concVars, toolVars, svcVars>>
    \/ StartStep /\ ExitIfLeaves /\ UNCHANGED <<auxVars, concVars, toolVars, svcVars>>
    \/ PlannerStep /\ ExitIfLeaves /\ UNCHANGED <<auxVars, concVars, toolVars, svcVars>>
    \/ ExecutorStep /\ ExitIfLeaves /\ UNCHANGED <<auxVars, concVars, toolVars, svcVars>>
    \/ ToolExecutorStep /\ ExitIfLeaves /\ UNCHANGED <<auxVars, concVars, toolVars, svcVars>>
    \/ ModelFails /\ ExitIfLeaves /\ UNCHANGED <<auxVars, concVars, toolVars, svcVars>>
    \/ OutOfSteps /\ ExitIfLeaves /\ UNCHANGED <<auxVars, concVars, toolVars, svcVars>>
    \/ SetupFails /\ UNCHANGED <<auxVars, concVars, toolVars, svcVars>>
    \/ \E t \in Threads, limit \in Limits :
          HistoryOpens(t, limit) /\ UNCHANGED <<auxVars, concVars, toolVars, svcVars>>

SpecConn == Init /\ [][NextConn]_vars


(***************************************************************************)
(* AgentService.run_agent (service.py).  The Langfuse side is modelled by  *)
(* what it does to the call: the handler may be absent (package missing,   *)
(* tracing disabled, keys missing), its creation may raise, and a handler  *)
(* that exists may raise when its trace id is read or when it is flushed.  *)
(***************************************************************************)
HandlerCases == {"disabled", "create_raises", "ok", "trace_raises", "flush_raises"}

\* _create_langfuse_handler: None when tracing is off and when the
\* creation raises (the except returns None)
_create_langfuse_handler(case) ==
    IF case \in {"disabled", "create_raises"} THEN NoHandler ELSE case

\* `langfuse_handler.trace.id` outside a try (lines 196-197 and 230-231):
\* does the read raise
TraceIdReadRaises(h) == h = "trace_raises"

\* run_agent up to the first step of the graph: thread_id is generated
\* when absent, the handler is created, the first read of the trace id is
\* under a try, and ainvoke_agent is called with that thread_id
RunAgent(tid, user, case) ==
    /\ result.kind # "none" \/ runs = 0
    /\ Invoke(tid, user)
    /\ request' = [thread_id |-> tid, user_id |-> user]
    /\ handler' = _create_langfuse_handler(case)
    /\ result' = NoResult

\* the finally block: flush when there is a handler; what flush raises is
\* swallowed
Flushes(h) == IF h # NoHandler THEN 1 ELSE 0

\* a service that returns a thread id of its own making
ReturnedThreadIdFresh == NoUser

\* "thread_id" of the dict run_agent returns: the local it passed on
ReturnedThreadId == config.thread_id

\* a run_agent that flushes at the end of its try body and not in finally
RunAgentOutcomeFlushInTry ==
    IF pc = "done" /\ ~TraceIdReadRaises(handler)
    THEN [kind |-> "return", status |-> "success",
          thread_id |-> ReturnedThreadId, exc |-> "none",
          flushes |-> Flushes(handler)]
    ELSE [kind |-> "raise", status |-> "none", thread_id |-> NoUser,
          exc |-> IF TraceIdReadRaises(handler) THEN "trace_error" ELSE failure,
          flushes |-> 0]

\* what run_agent does once ainvoke_agent has returned (try body) or has
\* raised (except), then finally
RunAgentOutcome ==
    IF pc = "done"
    THEN IF TraceIdReadRaises(handler)
         THEN [kind |-> "raise", status |-> "none", thread_id |-> NoUser,
               exc |-> "trace_error", flushes |-> Flushes(handler)]
         ELSE [kind |-> "return", status |-> "success",
               thread_id |-> ReturnedThreadId, exc |-> "none",
               flushes |-> Flushes(handler)]
    ELSE IF TraceIdReadRaises(handler)
         THEN [kind |-> "raise", status |-> "none", thread_id |-> NoUser,
               exc |-> "trace_error", flushes |-> Flushes(handler)]
         ELSE [kind |-> "raise", status |-> "none", thread_id |-> NoUser,
               exc |-> failure, flushes |-> Flushes(handler)]

RunAgentEnds ==
    /\ pc \in {"done", "failed"}
    /\ runs > 0
    /\ result.kind = "none"
    /\ result' = RunAgentOutcome
    /\ lastOp' = "return"
    /\ ForgetHistory
    /\ UNCHANGED <<store, clock, nextId, runs, pc, config, state, visited,
                   failure, baseLen, resumedFrom, request, handler>>

NextService ==
    \/ \E tid \in Threads \cup {NoUser}, user \in HistoryUsers,
          case \in HandlerCases :
          RunAgent(tid, user, case) /\ UNCHANGED <<auxVars, concVars, toolVars, connVars>>
    \/ StartStep /\ UNCHANGED extVars
    \/ PlannerStep /\ UNCHANGED extVars
    \/ ExecutorStep /\ UNCHANGED extVars
    \/ ToolExecutorStep /\ UNCHANGED extVars
    \/ ModelFails /\ UNCHANGED extVars
    \/ OutOfSteps /\ UNCHANGED extVars
    \/ RunAgentEnds /\ UNCHANGED <<auxVars, concVars, toolVars, connVars>>

SpecService == Init /\ [][NextService]_vars


(***************************************************************************)
(* The routes over the run records (api/routes/agent.py, crud.py).  A run  *)
(* record is [id, user_id]; the status and search filters of the list,     *)
(* which only narrow the result, are not modelled.                         *)
(***************************************************************************)
is_superuser(u) == u = "admin"

\* get_agent_run: the row with that id, as a sequence of zero or one rows
get_agent_run(run_id) == SelectSeq(agentRuns, LAMBDA r : r.id = run_id)

\* an ownership check that lets everyone through
ForbiddenNever(run, caller) == FALSE

\* `run.user_id != current_user.id and not current_user.is_superuser`
Forbidden(run, caller) == run.user_id # caller /\ ~is_superuser(caller)

\* get_agent_runs_by_user up to the pagination: the rows of the user,
\* newest first
RunsOfUser(user) == Reverse(SelectSeq(agentRuns, LAMBDA r : r.user_id = user))

\* .offset(skip).limit(limit)
Page(rows, skip, limit) ==
    SubSeq(rows, skip + 1, IF skip + limit < Len(rows) THEN skip + limit ELSE Len(rows))

\* POST /agent/run once the agent has run: create_agent_run with the
\* caller as user_id
CreateAgentRun(caller) ==
    /\ Len(agentRuns) < MaxRunRecords
    /\ agentRuns' = Append(agentRuns, [id |-> Len(agentRuns) + 1, user_id |-> caller])
    /\ reply' = [op |-> "run", caller |-> caller, run_id |-> Len(agentRuns) + 1,
                    code |-> 200, data |-> <<>>]
    /\ UNCHANGED evaluations

\* GET /agent/runs
get_agent_runs(caller, skip, limit) ==
    /\ reply' = [op |-> "list", caller |-> caller, run_id |-> 0, code |-> 200,
                    data |-> Page(RunsOfUser(caller), skip,
                                  IF limit > 1000 THEN 1000 ELSE limit)]
    /\ UNCHANGED <<agentRuns, evaluations>>

\* the answer of the two routes that name a run, before they act on it
Checked(op, caller, run_id) ==
    LET run == get_agent_run(run_id)
    IN [op |-> op, caller |-> caller, run_id |-> run_id,
        code |-> IF run = <<>> THEN 404
                 ELSE IF Forbidden(run[1], caller) THEN 403 ELSE 200,
        data |-> IF run # <<>> /\ ~Forbidden(run[1], caller) THEN run ELSE <<>>]

\* GET /agent/runs/{run_id}
get_agent_run_by_id(caller, run_id) ==
    /\ reply' = Checked("get", caller, run_id)
    /\ UNCHANGED <<agentRuns, evaluations>>

\* POST /agent/evaluations
trigger_evaluation(caller, run_id) ==
    /\ Len(evaluations) < MaxEvaluations
    /\ reply' = Checked("evaluate", caller, run_id)
    /\ evaluations' = IF Checked("evaluate", caller, run_id).code = 200
                      THEN Append(evaluations, [run_id |-> run_id])
                      ELSE evaluations
    /\ UNCHANGED agentRuns

NextAccess ==
    \/ \E caller \in Callers : CreateAgentRun(caller) /\ UNCHANGED accessFrame
    \/ \E caller \in Callers, skip \in Skips, limit \in PageLimits :
          get_agent_runs(caller, skip, limit) /\ UNCHANGED accessFrame
    \/ \E caller \in Callers, run_id \in 1..MaxRunRecords :
          get_agent_run_by_id(caller, run_id) /\ UNCHANGED accessFrame
    \/ \E caller \in Callers, run_id \in 1..MaxRunRecords :
          trigger_evaluation(caller, run_id) /\ UNCHANGED accessFrame

SpecAccess == Init /\ [][NextAccess]_vars


(***************************************************************************)
(* track_agent_execution.                                                  *)
(***************************************************************************)
\* _initialize_prometheus_metrics, called by the lifespan before the
\* application serves: agent_active_executions becomes a Gauge, each label
\* of which starts at 0.  A failure is logged and leaves it None.
initialize_prometheus_metrics ==
    /\ ~agent_active_executions.ready
    /\ \A i \in 1..MaxTracked : tracked[i].phase # "body"
    /\ agent_active_executions' =
           [ready |-> TRUE, value |-> [t \in AgentTypes |-> 0]]
    /\ UNCHANGED tracked

\* agent_active_executions.labels(agent_type=agent_type).inc(), skipped
\* when the gauge is None
GaugeInc(gauge, agent_type) ==
    IF gauge.ready
    THEN [gauge EXCEPT !.value[agent_type] = @ + 1]
    ELSE gauge

\* the finally clause: labels(agent_type=agent_type).dec() however the
\* body ended, skipped when the gauge is None
GaugeFinallyReturnOnly(gauge, agent_type, how) ==
    IF gauge.ready /\ how = "returned"
    THEN [gauge EXCEPT !.value[agent_type] = @ - 1]
    ELSE gauge

GaugeFinally(gauge, agent_type, how) ==
    IF gauge.ready
    THEN [gauge EXCEPT !.value[agent_type] = @ - 1]
    ELSE gauge

\* with track_agent_execution(agent_type): up to the yield
track_agent_execution_enter(i, agent_type) ==
    /\ tracked[i].phase = "new"
    /\ agent_active_executions' =
           GaugeInc(agent_active_executions, agent_type)
    /\ tracked' = [tracked EXCEPT ![i] =
           [phase |-> "body", agent_type |-> agent_type,
            incs |-> IF agent_active_executions.ready THEN 1 ELSE 0,
            decs |-> 0]]

\* the body returns or raises: from the yield to the end
track_agent_execution_exit(i, how) ==
    /\ tracked[i].phase = "body"
    /\ agent_active_executions' =
           GaugeFinally(agent_active_executions, tracked[i].agent_type, how)
    /\ tracked' = [tracked EXCEPT ![i] =
           [@ EXCEPT !.phase = how,
                     !.decs = IF agent_active_executions'
                                    # agent_active_executions
                              THEN @ + 1 ELSE @]]

NextGauge ==
    \/ initialize_prometheus_metrics /\ UNCHANGED gaugeFrame
    \/ \E i \in 1..MaxTracked, agent_type \in AgentTypes :
          track_agent_execution_enter(i, agent_type) /\ UNCHANGED gaugeFrame
    \/ \E i \in 1..MaxTracked, how \in {"returned", "raised"} :
          track_agent_execution_exit(i, how) /\ UNCHANGED gaugeFrame

SpecGauge == Init /\ [][NextGauge]_vars

(***************************************************************************)
(* trace() and span().                                                     *)
(***************************************************************************)
\* a context entered with the values the context variables had before
Entered(kind, obj, token) ==
    [kind |-> kind, obj |-> obj, token |-> token,
     before |-> [trace |-> current_trace, span |-> current_span]]

\* with trace(...): up to the yield.  Without a client, or when the trace
\* is not sampled, the body gets None and the context variable is not
\* touched; else client.trace() creates the trace and _current_trace.set()
\* returns the token that holds the value before
trace_enter(enabled) ==
    /\ Len(ctxStack) < MaxDepth
    /\ IF ~enabled
       THEN /\ ctxStack' = Append(ctxStack, Entered("trace", None, NoToken))
            /\ UNCHANGED <<current_trace, objects>>
       ELSE /\ Len(objects) < MaxObjects
            /\ objects' = Append(objects, [kind |-> "trace", ends |-> 0])
            /\ current_trace' = Len(objects) + 1
            /\ ctxStack' = Append(ctxStack,
                  Entered("trace", Len(objects) + 1,
                          [set |-> TRUE, old |-> current_trace]))
    /\ UNCHANGED <<current_span, traceFlushes, traceExit>>

\* with span(...): up to the yield.  Without a current trace the body gets
\* None; else current_trace.span() creates the span and
\* _current_span.set() returns the token
span_enter ==
    /\ Len(ctxStack) < MaxDepth
    /\ IF current_trace = None
       THEN /\ ctxStack' = Append(ctxStack, Entered("span", None, NoToken))
            /\ UNCHANGED <<current_span, objects>>
       ELSE /\ Len(objects) < MaxObjects
            /\ objects' = Append(objects, [kind |-> "span", ends |-> 0])
            /\ current_span' = Len(objects) + 1
            /\ ctxStack' = Append(ctxStack,
                  Entered("span", Len(objects) + 1,
                          [set |-> TRUE, old |-> current_span]))
    /\ UNCHANGED <<current_trace, traceFlushes, traceExit>>

\* client.trace() or current_trace.span() raises: the except clause logs
\* and raises again, and the finally clause finds token and object None.
\* The body does not run.
create_fails(kind) ==
    /\ kind = "span" => current_trace # None
    /\ traceExit' = [kind |-> kind, obj |-> None, how |-> "create",
                     raised |-> TRUE]
    /\ UNCHANGED <<current_trace, current_span, ctxStack, objects,
                   traceFlushes>>

\* the finally clause: reset(token) when the variable was set
RestoreNone(current, token) ==
    IF token.set THEN None ELSE current

Restore(current, token) ==
    IF token.set THEN token.old ELSE current

\* the innermost open context ends, its body having returned or raised:
\* from the yield to the end.  An exception of the body is raised again
\* by the except clause (by the yield itself where the body got None);
\* the finally clause resets the context variable and ends the object, and
\* trace() then flushes the client
context_exit(how) ==
    /\ ctxStack # <<>>
    /\ LET top == Last(ctxStack) IN
       /\ ctxStack' = SubSeq(ctxStack, 1, Len(ctxStack) - 1)
       /\ current_trace' = IF top.kind = "trace"
                            THEN Restore(current_trace, top.token)
                            ELSE current_trace
       /\ current_span' = IF top.kind = "span"
                           THEN Restore(current_span, top.token)
                           ELSE current_span
       /\ objects' = IF top.obj # None
                      THEN [objects EXCEPT ![top.obj].ends = @ + 1]
                      ELSE objects
       /\ traceFlushes' = IF top.obj # None /\ top.kind = "trace"
                           THEN traceFlushes + 1
                           ELSE traceFlushes
       /\ traceExit' = [kind |-> top.kind, obj |-> top.obj, how |-> how,
                        raised |-> (how = "raise")]

NextTrace ==
    \/ \E enabled \in BOOLEAN : trace_enter(enabled) /\ UNCHANGED traceFrame
    \/ span_enter /\ UNCHANGED traceFrame
    \/ \E kind \in {"trace", "span"} :
          create_fails(kind) /\ UNCHANGED traceFrame
    \/ \E how \in {"return", "raise"} :
          context_exit(how) /\ UNCHANGED traceFrame

SpecTrace == Init /\ [][NextTrace]_vars

(***************************************************************************)
(* create_rate_limiter.                                                    *)
(***************************************************************************)
\* create_rate_limiter(times, seconds): no_op_limiter when
\* settings.RATE_LIMIT_ENABLED is false, else resilient_limiter around a
\* RateLimiter
create_rate_limiter(enabled) ==
    /\ limiter' = IF ~enabled THEN "no_op" ELSE "resilient"
    /\ UNCHANGED <<redis, redisWarned, hits, bypassLogged, limitReply>>

\* init_rate_limiter has connected: FastAPILimiter.init(redis_client)
init_rate_limiter ==
    /\ redis = NoRedis
    /\ redis' = "redis"
    /\ bypassLogged' = 0
    /\ UNCHANGED <<limiter, redisWarned, hits, limitReply>>

\* FastAPILimiter.redis is None again
redis_unavailable ==
    /\ redis # NoRedis
    /\ redis' = NoRedis
    /\ UNCHANGED <<limiter, redisWarned, hits, bypassLogged, limitReply>>

\* the window of an identifier expires
window_expires(id) ==
    /\ hits[id] > 0
    /\ hits' = [hits EXCEPT ![id] = 0]
    /\ UNCHANGED <<limiter, redis, redisWarned, bypassLogged, limitReply>>

\* no_op_limiter(request, response)
no_op_limiter ==
    /\ limiter = "no_op"
    /\ limitReply' = [limiter |-> "no_op", redis |-> redis,
                      consulted |-> FALSE, warned |-> FALSE,
                      outcome |-> "passed"]
    /\ UNCHANGED <<limiter, redis, redisWarned, hits, bypassLogged>>

\* the branch resilient_limiter takes: without Redis it warns unless it
\* has warned, sets the flag and returns; with Redis it clears the flag
\* and awaits the RateLimiter
resilient_branch_consults(red, flag) ==
    [consult |-> TRUE, warn |-> FALSE, flag |-> FALSE]

resilient_branch(red, flag) ==
    IF red = NoRedis
    THEN [consult |-> FALSE, warn |-> ~flag, flag |-> TRUE]
    ELSE [consult |-> TRUE, warn |-> FALSE, flag |-> FALSE]

\* resilient_limiter(request, response), the request being of identifier
\* id.  The RateLimiter counts the request and raises HTTPException 429
\* once the identifier has made `times` requests in the window
resilient_limiter(id) ==
    /\ limiter = "resilient"
    /\ LET branch == resilient_branch(redis, redisWarned)
           limited == branch.consult /\ hits[id] >= RateTimes
       IN
       /\ redisWarned' = branch.flag
       /\ bypassLogged' = IF branch.warn THEN bypassLogged + 1
                           ELSE bypassLogged
       /\ hits' = IF branch.consult /\ ~limited
                   THEN [hits EXCEPT ![id] = @ + 1]
                   ELSE hits
       /\ limitReply' = [limiter |-> "resilient", redis |-> redis,
                         consulted |-> branch.consult, warned |-> branch.warn,
                         outcome |-> IF limited THEN "429" ELSE "passed"]
    /\ UNCHANGED <<limiter, redis>>

NextLimit ==
    \/ \E enabled \in BOOLEAN :
          create_rate_limiter(enabled) /\ UNCHANGED limitFrame
    \/ init_rate_limiter /\ UNCHANGED limitFrame
    \/ redis_unavailable /\ UNCHANGED limitFrame
    \/ \E id \in RateIds : window_expires(id) /\ UNCHANGED limitFrame
    \/ no_op_limiter /\ UNCHANGED limitFrame
    \/ \E id \in RateIds : resilient_limiter(id) /\ UNCHANGED limitFrame

SpecLimit == Init /\ [][NextLimit]_vars

(***************************************************************************)
(* Evaluator.                                                              *)
(***************************************************************************)
\* Evaluator(): a new evaluator with the report of _initialize_report, as
\* run_evaluation makes for every evaluation
Evaluator_init ==
    /\ evPc.phase \in {"returned", "raised"}
    /\ evPc' = [phase |-> "new", i |-> 1, j |-> 1]
    /\ evTraces' = <<>>
    /\ report' = InitialReport
    /\ trace_results' = <<>>

\* run, up to the loop: traces = self._fetch_traces() (no trace when the
\* request fails) and report["total_traces"] = len(traces)
fetch_traces(traces) ==
    /\ evPc.phase = "new"
    /\ evTraces' = traces
    /\ report' = [report EXCEPT !.total_traces = Len(traces)]
    /\ trace_results' = [i \in 1..Len(traces) |-> InitialTraceResult]
    /\ evPc' = [phase |-> "loop", i |-> 1, j |-> 1]

\* the loop of _evaluate_metric from attempt `attempt` on, outcomes[k]
\* being how the k-th call of the model would end: an exception is tried
\* again after the attempts below 2 and gives None after the last, any
\* other end returns what was parsed
RECURSIVE evaluate_attempts(_, _)
evaluate_attempts(outcomes, attempt) ==
    IF attempt >= Attempts
    THEN [score |-> FALSE, calls |-> attempt]
    ELSE IF outcomes[attempt + 1] = "error"
         THEN IF attempt < Retried
              THEN evaluate_attempts(outcomes, attempt + 1)
              ELSE [score |-> FALSE, calls |-> attempt + 1]
         ELSE [score |-> outcomes[attempt + 1] = "score",
               calls |-> attempt + 1]

\* _evaluate_metric(metric, input_text, output_text): None without a call
\* when the input or the output is missing
evaluate_metric(io, outcomes) ==
    IF ~io
    THEN [score |-> FALSE, calls |-> 0]
    ELSE evaluate_attempts(outcomes, 0)

\* one turn of the loop over the metrics: the metric is evaluated; a score
\* is pushed to Langfuse and counted by _update_success_metrics, no score
\* is counted by _update_failure_metrics.  create_score raising ends run
\* with the exception
evaluate_metric_step(outcomes, pushed) ==
    /\ evPc.phase = "loop"
    /\ evPc.i <= Len(evTraces)
    /\ evPc.j <= Len(MetricNames)
    /\ LET i == evPc.i
           j == evPc.j
           score == evaluate_metric(evTraces[i].io, outcomes)
       IN
       IF score.score /\ ~pushed
       THEN /\ evPc' = [evPc EXCEPT !.phase = "raised"]
            /\ trace_results' =
                  [trace_results EXCEPT ![i].calls[j] = score.calls]
            /\ UNCHANGED report
       ELSE /\ trace_results' = [trace_results EXCEPT ![i] =
                  [@ EXCEPT !.metrics_succeeded =
                                IF score.score THEN @ + 1 ELSE @,
                            !.metrics_results[j] =
                                IF score.score THEN "success" ELSE "failure",
                            !.metrics_evaluated = @ + 1,
                            !.calls[j] = score.calls]]
            /\ report' = IF score.score
                         THEN [report EXCEPT
                                 !.metrics_summary[j].success_count = @ + 1]
                         ELSE [report EXCEPT
                                 !.metrics_summary[j].failure_count = @ + 1]
            /\ evPc' = [evPc EXCEPT !.j = @ + 1]
    /\ UNCHANGED evTraces

\* the test of _process_trace_results
TraceSucceededAny(metrics_succeeded, total_metrics) ==
    metrics_succeeded >= 1

TraceSucceeded(metrics_succeeded, total_metrics) ==
    metrics_succeeded = total_metrics

\* _process_trace_results(trace_id, trace_results, len(metrics)), after the
\* last metric of the trace
process_trace_results ==
    /\ evPc.phase = "loop"
    /\ evPc.i <= Len(evTraces)
    /\ evPc.j > Len(MetricNames)
    /\ LET i == evPc.i
           ok == TraceSucceeded(trace_results[i].metrics_succeeded,
                                Len(MetricNames))
       IN
       /\ trace_results' = [trace_results EXCEPT ![i].success = ok]
       /\ report' = IF ok
                     THEN [report EXCEPT !.successful_traces = @ + 1]
                     ELSE [report EXCEPT !.failed_traces = @ + 1]
       /\ evPc' = [evPc EXCEPT !.i = @ + 1, !.j = 1]
    /\ UNCHANGED evTraces

\* run, after the loop: return self.report
run_returns ==
    /\ evPc.phase = "loop"
    /\ evPc.i > Len(evTraces)
    /\ evPc' = [evPc EXCEPT !.phase = "returned"]
    /\ UNCHANGED <<evTraces, report, trace_results>>

\* the lists of traces _fetch_traces can return
FetchedTraces ==
    UNION {[1..n -> [io : BOOLEAN]] : n \in 0..MaxTraces}

NextEval ==
    \/ Evaluator_init /\ UNCHANGED evalFrame
    \/ \E traces \in FetchedTraces :
          fetch_traces(traces) /\ UNCHANGED evalFrame
    \/ \E outcomes \in [1..Attempts -> CallOutcomes], pushed \in BOOLEAN :
          evaluate_metric_step(outcomes, pushed) /\ UNCHANGED evalFrame
    \/ process_trace_results /\ UNCHANGED evalFrame
    \/ run_returns /\ UNCHANGED evalFrame

SpecEval == Init /\ [][NextEval]_vars

(***************************************************************************)
(* Properties.                                                             *)
(***************************************************************************)
\* the step just taken is the execution of the node n
Ran(n) == visited' = Append(visited, n)

\* a step of the graph (START or a node) has completed
StepDone == clock' = clock + 1 /\ lastOp' # "invoke"

Count(seq, x) == Cardinality({i \in 1..Len(seq) : seq[i] = x})

\* C1: when the response the executor has just appended carries no tool
\* call, the run goes to END: it is done after that very step, the
\* checkpoint of the step has no pending node, and no node is executed
\* after it until another run is invoked.
C1_NoToolCallsRoutesToEnd ==
    [][/\ (Ran("executor") /\ Last(state'.messages).tool_calls = <<>>)
            => /\ pc' = "done"
               /\ Last(store'[config.thread_id]).next = "none"
       /\ pc = "done" => (visited' = visited \/ lastOp' = "invoke")]_vars

C1_Witness ==
    /\ pc = "done"
    /\ lastOp = "executor"
    /\ Last(state.messages).tool_calls = <<>>

\* C2: when the response the executor has just appended carries tool calls
\* the next node is tool_executor, and after tool_executor the next node is
\* executor; neither step ends the run or goes back to planner.
C2_ToolCallsLoopBackToExecutor ==
    [][/\ (Ran("executor") /\ Last(state'.messages).tool_calls # <<>>)
            => pc' = "tool_executor"
       /\ Ran("tool_executor") => pc' = "executor"]_vars

C2_Witness ==
    /\ Len(visited) >= 4
    /\ visited[2] = "executor"
    /\ visited[3] = "tool_executor"
    /\ visited[4] = "executor"
    /\ state.messages[Len(state.messages) - 1].type = "tool"

\* C3: a run whose model asks for a tool call in every response ends with a
\* failure after exactly N executor visits, N being the configured maximum
\* hop count.
C3_FailsAfterNExecutorVisits ==
    failure = "recursion" => Count(visited, "executor") = RecursionLimit

\* the executor response the tool results of the state answer: the last
\* assistant message
LastAI(msgs) ==
    msgs[CHOOSE i \in 1..Len(msgs) :
            /\ msgs[i].type = "ai"
            /\ \A j \in (i + 1)..Len(msgs) : msgs[j].type # "ai"]

Results(msgs, call) ==
    {i \in 1..Len(msgs) : msgs[i].type = "tool" /\ msgs[i].tool_call_id = call}

C5_MessagesAppendOnly ==
    [][StepDone => IsPrefix(state.messages, state'.messages)]_vars

C5_Witness ==
    /\ lastOp = "tool_executor"
    /\ baseLen > 0
    /\ Len(state.messages) >= 6

\* a run on a thread without checkpoints that has ended after planner and
\* one executor response without tool calls
PlainRunDone ==
    /\ pc = "done"
    /\ baseLen = 0
    /\ visited = <<"planner", "executor">>

\* C6 as claimed: such a run ends with exactly 2 messages and a plan.
C6_TwoMessagesAndPlan ==
    PlainRunDone => Len(state.messages) = 2 /\ state.plan # None

\* C6 as amended: such a run ends with exactly 3 messages, the user's
\* message, the response of the planner and the response of the executor,
\* and plan is set: it is the response of the planner.
C6_ThreeMessagesAndPlan ==
    PlainRunDone =>
        /\ Len(state.messages) = 3
        /\ state.messages[1].type = "human"
        /\ state.messages[2].type = "ai"
        /\ state.messages[3].type = "ai"
        /\ state.plan # None
        /\ state.plan = state.messages[2].id

C6_Witness == PlainRunDone /\ Len(state.messages) = 3

\* checkpoints the run in flight has added to its thread
RunCheckpoints ==
    SubSeq(store[config.thread_id], baseLen + 1, Len(store[config.thread_id]))

\* C7 as claimed: when a run has finished, its thread has one checkpoint
\* more per node the run visited.
C7_OneCheckpointPerNode ==
    pc = "done" => Len(RunCheckpoints) = Len(visited)

\* C7 as amended: a checkpoint is written after every node completion,
\* holding the state the node left, and a run adds one checkpoint per node
\* visited plus two: the checkpoint of its input, written before the first
\* step, and the checkpoint of the START step that applies the input.
C7_CheckpointPerStep ==
    /\ pc = START => Len(RunCheckpoints) = 1
    /\ pc \in Nodes \cup {"done", "failed"} =>
        /\ Len(RunCheckpoints) = Len(visited) + 2
        /\ RunCheckpoints[1].source = "input"
        /\ \A i \in 2..Len(RunCheckpoints) : RunCheckpoints[i].source = "loop"
        /\ Last(RunCheckpoints).values = state

C7_Witness ==
    /\ pc = "done"
    /\ visited = <<"planner", "executor">>
    /\ Len(RunCheckpoints) = 4

\* the run in flight was invoked on a thread whose latest checkpoint had a
\* node pending: the run before it stopped between two nodes
StoppedBetweenNodes == resumedFrom \in Nodes

\* C8 as claimed: the first node such a run executes is the node that was
\* pending in the latest checkpoint.
C8_ResumesAtPendingNode ==
    (StoppedBetweenNodes /\ visited # <<>>) => visited[1] = resumedFrom

\* C8 as amended: such a run starts again at planner; what it takes from
\* the latest checkpoint is the state: it keeps the messages stored there
\* and adds the new user message after them.
C8_RestartsAtPlannerWithStoredState ==
    (StoppedBetweenNodes /\ pc \in Nodes \cup {"done", "failed"}) =>
        LET stored == store[config.thread_id][baseLen].values.messages
        IN /\ visited # <<>> => visited[1] = "planner"
           /\ IsPrefix(stored, state.messages)
           /\ Len(state.messages) > Len(stored)
           /\ state.messages[Len(stored) + 1].type = "human"

C8_Witness ==
    /\ resumedFrom = "executor"
    /\ visited # <<>>
    /\ visited[1] = "planner"
    /\ pc = "executor"

\* C9: the history comes oldest first, and holds at most `limit` snapshots
\* when a limit is given.
C9_OldestFirstAtMostLimit ==
    lastOp = "history" =>
        /\ \A i, j \in 1..Len(histResult) :
              i < j => histResult[i].created_at < histResult[j].created_at
        /\ histArgs.limit # NoLimit => Len(histResult) <= histArgs.limit

C19_UserIdInEveryCheckpoint ==
    runs > 0 =>
        \A i \in 1..Len(RunCheckpoints) :
            RunCheckpoints[i].values.user_id = config.user_id

\* C19 as amended: user_id is written once, by the START step that applies
\* the input of the run, and no node changes it: from that step on the
\* state of the run and every checkpoint the run writes hold the user_id
\* of the invocation.  The checkpoint of the input, written before the
\* START step, still holds what the thread had stored.
C19_UserIdFixedFromStartStep ==
    /\ pc \in Nodes \cup {"done", "failed"} => state.user_id = config.user_id
    /\ runs > 0 =>
        \A i \in 2..Len(RunCheckpoints) :
            RunCheckpoints[i].values.user_id = config.user_id

C19_Witness ==
    /\ pc = "done"
    /\ "tool_executor" \in {visited[i] : i \in 1..Len(visited)}
    /\ RunCheckpoints[1].values.user_id # config.user_id
    /\ Last(RunCheckpoints).values.user_id = config.user_id

\* the user message of the run in flight: the message the START step added
RunUserMessage == Last(RunCheckpoints[2].values.messages)

HasMessage(msgs, m) == \E i \in 1..Len(msgs) : msgs[i] = m

\* C20: once the first node of a run has executed, the messages of the
\* state, and of every checkpoint written since, are not empty and contain
\* the user message that started the run, a message the thread did not
\* hold before the run.
C20_MessagesHoldUserMessage ==
    (pc \in Nodes \cup {"done", "failed"} /\ visited # <<>>) =>
        /\ state.messages # <<>>
        /\ RunUserMessage.type = "human"
        /\ HasMessage(state.messages, RunUserMessage)
        /\ ~HasMessage(RunCheckpoints[1].values.messages, RunUserMessage)
        /\ \A i \in 3..Len(RunCheckpoints) :
              HasMessage(RunCheckpoints[i].values.messages, RunUserMessage)

C20_Witness ==
    /\ pc = "done"
    /\ baseLen > 0
    /\ visited = <<"planner", "executor", "tool_executor", "executor">>
    /\ HasMessage(state.messages, RunUserMessage)

\* C11: the checkpoints of a thread are written one run at a time: every
\* checkpoint extends the state of the checkpoint committed immediately
\* before it on the thread, its messages begin with the messages of that
\* checkpoint.
C11_CheckpointExtendsPredecessor ==
    \A t \in Threads :
        \A i \in 1..(Len(store[t]) - 1) :
            IsPrefix(store[t][i].values.messages, store[t][i + 1].values.messages)

\* the step just taken ran the tools
ToolsRan == lastOp' \in {"tool_executor", "tool_error"}

\* C12: a failure of a tool never aborts the run: the tool returns a
\* payload with an "error" key and does not raise, the result is appended
\* to the messages as the tool message of its call, the executor is the
\* next node, and no run fails because of a tool.
C12_ToolFailureIsAMessage ==
    [][/\ ToolsRan =>
            /\ lastOp' = "tool_executor"
            /\ pc' = "executor"
            /\ Len(toolResults') = Len(Last(state.messages).tool_calls)
            /\ Len(state'.messages) = Len(state.messages) + Len(toolResults')
            /\ \A i \in 1..Len(toolResults') :
                  /\ ~toolResults'[i].payload.raised
                  /\ Failed(toolResults'[i].outcome) =>
                        toolResults'[i].payload.error # ""
                  /\ state'.messages[Len(state.messages) + i].type = "tool"
                  /\ state'.messages[Len(state.messages) + i].tool_call_id =
                        toolResults'[i].call
       /\ failure' # "tool_error"]_vars

C12_Witness ==
    /\ pc = "done"
    /\ toolFailed
    /\ visited = <<"planner", "executor", "tool_executor", "executor">>
    /\ state.messages[Len(state.messages) - 1].type = "tool"

\* C17: without a session the tools are exactly http_get and http_post,
\* with a session they are those two and the three database lookups, and
\* every call for the same session yields the same names: what the
\* executor binds is what the graph was built with.
C17_ToolsBySession ==
    runs > 0 =>
        /\ session = NoSession => Range(tools) = {"http_get", "http_post"}
        /\ session # NoSession =>
              Range(tools) = {"http_get", "http_post", "lookup_user_by_email",
                              "lookup_item_by_id", "lookup_user_items"}
        /\ Len(tools) = Cardinality(Range(tools))
        /\ bound # <<>> => bound = tools

C17_Witness ==
    /\ session # NoSession
    /\ Len(tools) = 5
    /\ bound = tools
    /\ baseLen > 0

\* the positions of the event ev in the log of the call
Positions(log, ev) == {i \in 1..Len(log) : log[i] = ev}

\* C15: in every call of invoke_agent, ainvoke_agent and
\* get_conversation_history the connection is acquired exactly once, setup
\* comes before the graph is built or used, the graph is built and run
\* only while the connection is open, and the connection is released
\* exactly once however the call ends: it is open exactly while the graph
\* runs and closed once the call has returned or raised.
C15_ConnectionLifecycle ==
    /\ conn = "open" <=> pc \in {START} \cup Nodes
    /\ connLog # <<>> =>
        /\ Positions(connLog, "enter") = {1}
        /\ Positions(connLog, "setup") = {2}
        /\ \A i \in 1..Len(connLog) :
              connLog[i] \in {"create_graph", "invoke", "get_state_history"} =>
                  /\ i > 2
                  /\ \A j \in Positions(connLog, "exit") : i < j
        /\ Cardinality(Positions(connLog, "exit")) <= 1
        /\ conn = "closed" => Positions(connLog, "exit") = {Len(connLog)}
        /\ conn = "open" => Positions(connLog, "exit") = {}

\* a run that raised, a run that returned and a history query have each
\* released their connection
C15_Witness ==
    /\ pc = "failed"
    /\ failure = "model_error"
    /\ conn = "closed"
    /\ connLog = <<"enter", "setup", "create_graph", "invoke", "exit">>
    /\ baseLen > 0

\* C13: when the execution of the graph has raised, run_agent raises that
\* same exception and does not return status "success".
C13_ReraisesGraphException ==
    (result.kind # "none" /\ pc = "failed") =>
        /\ result.kind = "raise"
        /\ result.exc = failure
        /\ result.status # "success"

\* C14: a failure of the observability side, at the creation of the
\* handler, at a read of the trace id or at the flush, never changes how
\* the call ends: a run whose graph succeeded returns status "success", a
\* run whose graph raised raises the exception of the graph.
C14_ObservabilityNeverAborts ==
    result.kind # "none" =>
        /\ pc = "done" => (result.kind = "return" /\ result.status = "success")
        /\ pc = "failed" => (result.kind = "raise" /\ result.exc = failure)

\* C18: the run is on the caller's thread_id when one is given and on a
\* fresh thread only when none is given; the thread_id run_agent returns
\* is that thread, and the checkpoints of the run are written under it and
\* under no other thread.
C18_ThreadIdOfTheRun ==
    [][/\ runs' > 0 =>
            /\ request'.thread_id # NoUser =>
                  config'.thread_id = request'.thread_id
            /\ request'.thread_id = NoUser => baseLen' = 0
            /\ result'.kind = "return" => result'.thread_id = config'.thread_id
       /\ \A t \in Threads : store'[t] # store[t] => t = config'.thread_id]_vars

C18_Witness ==
    /\ result.kind = "return"
    /\ request.thread_id = "t1"
    /\ result.thread_id = "t1"
    /\ baseLen > 0
    /\ Len(RunCheckpoints) = 4
    /\ store["t2"] = <<>>

\* C16: a run is given a deadline by its caller, and a run whose deadline
\* has expired is aborted with a timeout failure: no run goes on past its
\* deadline unless it has failed with a timeout.
C16_DeadlineAbortsRun ==
    Len(visited) > Deadline => (pc = "failed" /\ failure = "timeout")

\* C22: with a handler, run_agent flushes exactly once per call, and only
\* once the execution of the graph has finished: on the path that returns
\* and on the paths that raise; without a handler nothing is flushed.
C22_FlushedOncePerCall ==
    /\ pc \in {START} \cup Nodes => result.flushes = 0
    /\ result.kind # "none" =>
        /\ pc \in {"done", "failed"}
        /\ handler # NoHandler => result.flushes = 1
        /\ handler = NoHandler => result.flushes = 0

\* the graph raised, the handler is active and its flush raises as well
C22_Witness ==
    /\ result.kind = "raise"
    /\ pc = "failed"
    /\ handler = "flush_raises"
    /\ result.flushes = 1
    /\ result.exc = failure

\* C26: the nodes of a run are visited in the order planner, executor and
\* then (tool_executor, executor) any number of times: planner runs once
\* and first, and a run that completes has run the executor and ends
\* right after an executor step, never after the planner.
C26_NodeOrder ==
    /\ \A i \in 1..Len(visited) :
          visited[i] = (IF i = 1 THEN "planner"
                        ELSE IF i % 2 = 0 THEN "executor" ELSE "tool_executor")
    /\ pc = "done" =>
        /\ Len(visited) >= 2
        /\ Last(visited) = "executor"
        /\ Count(visited, "planner") = 1

C26_Witness ==
    /\ pc = "done"
    /\ visited = <<"planner", "executor", "tool_executor", "executor">>

\* what the thread had stored when the run in flight was invoked
StoredBefore == store[config.thread_id][baseLen].values

\* C28: a run on a thread that holds the conversation of another user
\* never has a message of that user in the state its nodes read.
C28_NoMessagesOfAnotherUser ==
    (/\ pc \in Nodes
     /\ baseLen > 0
     /\ StoredBefore.user_id \notin {NoUser, config.user_id}) =>
        \A i \in 1..Len(StoredBefore.messages) :
            ~HasMessage(state.messages, StoredBefore.messages[i])

\* C29: runs on one thread accumulate.  From its START step on, a run
\* holds the messages the thread had stored followed by its new user
\* message and what its nodes added; its first node is planner; plan is
\* None after the START step and is the response of this run's planner
\* when the run is done; and no step changes the checkpoints of another
\* thread.
C29_RunsAccumulate ==
    [][/\ (pc' \in Nodes \cup {"done"} /\ baseLen' > 0) =>
            LET stored == store'[config'.thread_id][baseLen'].values.messages
                msgs == state'.messages
            IN /\ IsPrefix(stored, msgs)
               /\ Len(msgs) > Len(stored)
               /\ msgs[Len(stored) + 1].type = "human"
               /\ visited' # <<>> => visited'[1] = "planner"
               /\ pc' = "planner" => state'.plan = None
               /\ pc' = "done" =>
                     /\ Len(msgs) > Len(stored) + 1
                     /\ state'.plan = msgs[Len(stored) + 2].id
       /\ \A t \in Threads : t # config'.thread_id => store'[t] = store[t]]_vars

\* the second run on a thread whose first run completed has completed
C29_Witness ==
    /\ pc = "done"
    /\ baseLen = 4
    /\ StoredBefore.plan # None
    /\ Len(state.messages) = 6
    /\ store["t2"] = <<>>

\* where the graph g can go from a node: its edges and the targets of its
\* conditional edges
Arcs(g) ==
    g.edges \cup
        UNION {{<<b.source, p[2]>> : p \in b.path_map} : b \in g.branches}

RECURSIVE ReachableFrom(_, _)
ReachableFrom(g, seen) ==
    LET more == seen \cup {a[2] : a \in {x \in Arcs(g) : x[1] \in seen}}
    IN IF more = seen THEN seen ELSE ReachableFrom(g, more)

\* C27: with and without a session the graph has the same, well-formed
\* shape: the tools are not empty, tool_executor and the conditional edge
\* after executor exist and executor has no direct edge to END; every
\* edge goes from START or a node to a node or END, every node is
\* reachable from START, every outcome of a router is mapped, and the
\* tools of tool_executor are those the executor binds.
C27_GraphWellFormed ==
    runs > 0 =>
        LET g == create_agent_graph(session)
        IN /\ g.tools # <<>>
           /\ g.nodes = Nodes
           /\ \E b \in g.branches : b.source = "executor"
           /\ <<"executor", END>> \notin g.edges
           /\ \A a \in Arcs(g) :
                 a[1] \in g.nodes \cup {START} /\ a[2] \in g.nodes \cup {END}
           /\ g.nodes \cup {END} \subseteq ReachableFrom(g, {START})
           /\ \A b \in g.branches :
                 RouterOutcomes(b.router) \subseteq {p[1] : p \in b.path_map}
           /\ g.tools = tools
           /\ bound # <<>> => bound = g.tools
           /\ \A i \in 1..(Len(visited) - 1) :
                 <<visited[i], visited[i + 1]>> \in Arcs(g)

C27_Witness ==
    /\ session = NoSession
    /\ pc = "done"
    /\ visited = <<"planner", "executor", "tool_executor", "executor">>
    /\ bound = <<"http_get", "http_post">>

\* the run of that id, if it exists
RunOf(run_id) == {agentRuns[i] : i \in {j \in 1..Len(agentRuns) : agentRuns[j].id = run_id}}

\* C21: a caller who is not a superuser never reads or evaluates the run
\* of another user: the list holds runs of the caller only; a request for
\* a run, or for its evaluation, is answered 404 when the run does not
\* exist, 403 when it belongs to someone else and the caller is not a
\* superuser, and is served otherwise, for a superuser on any run; and a
\* request that is rejected creates no evaluation.
C21_RunsAreOwnersOnly ==
    [][LET r == reply'
       IN /\ r.op = "list" =>
                \A i \in 1..Len(r.data) : r.data[i].user_id = r.caller
          /\ r.op \in {"get", "evaluate"} =>
                /\ RunOf(r.run_id) = {} => r.code = 404
                /\ \A run \in RunOf(r.run_id) :
                      IF run.user_id = r.caller \/ is_superuser(r.caller)
                      THEN r.code = 200
                      ELSE r.code = 403 /\ r.data = <<>>
                /\ r.code # 200 => evaluations' = evaluations
                /\ (r.op = "evaluate" /\ r.code = 200) =>
                      evaluations' = Append(evaluations, [run_id |-> r.run_id])
          /\ ~is_superuser(r.caller) =>
                \A i \in 1..Len(r.data) : r.data[i].user_id = r.caller]_vars

\* a user was refused the evaluation of another user's run, which the
\* superuser had evaluated
C21_Witness ==
    /\ reply.op = "evaluate"
    /\ reply.code = 403
    /\ reply.caller = "u2"
    /\ \E run \in RunOf(reply.run_id) : run.user_id = "u1"
    /\ evaluations = <<[run_id |-> reply.run_id]>>

\* the executions of an agent_type that are inside track_agent_execution
InFlight(agent_type) ==
    {i \in 1..MaxTracked :
        tracked[i].phase = "body" /\ tracked[i].agent_type = agent_type}

Innermost(kind) ==
    LET open == {i \in 1..Len(ctxStack) :
                    ctxStack[i].kind = kind /\ ctxStack[i].obj # None}
    IN  IF open = {} THEN None
        ELSE ctxStack[CHOOSE i \in open : \A j \in open : j <= i].obj

\* the objects of the open contexts
OpenObjects == {ctxStack[i].obj : i \in 1..Len(ctxStack)} \ {None}

\* inside a context the current trace/span is the one it created; what is
\* open has not been ended, what is closed has been ended once, and the
\* client has been flushed once for every closed trace
TraceContextsConsistent ==
    /\ current_trace = Innermost("trace")
    /\ current_span = Innermost("span")
    /\ \A o \in 1..Len(objects) :
          objects[o].ends = IF o \in OpenObjects THEN 0 ELSE 1
    /\ traceFlushes = Cardinality({o \in 1..Len(objects) :
                          objects[o].kind = "trace" /\ o \notin OpenObjects})

\* a context ends: the current trace and span are what they were before it
\* was entered, and an exception of the body is raised again
TraceExitRestores ==
    Len(ctxStack') < Len(ctxStack) =>
        /\ current_trace' = Last(ctxStack).before.trace
        /\ current_span' = Last(ctxStack).before.span
        /\ traceExit'.raised = (traceExit'.how = "raise")
        /\ Last(ctxStack).obj # None =>
              objects'[Last(ctxStack).obj].ends = 1

PassedUnchecked ==
    /\ limitReply.outcome = "passed"
    /\ ~limitReply.consulted

SuccessfulTraces ==
    {i \in 1..Len(trace_results) : trace_results[i].success}

=============================================================================
